---- MODULE Spec2Model ----
(***************************************************************************)
(* Evaluation & prioritization engine of the superstack repository.        *)
(*                                                                         *)
(* Spec          : the outcome store of src/feedback_system.py             *)
(*                 (ContextFeedback over SQLite): record_optimization and  *)
(*                 mark_optimization_applied, called by concurrent         *)
(*                 clients, each on a connection of its own.               *)
(*                                                                         *)
(* SpecEvaluator : the comparative scorer of                               *)
(*                 src/scripts/context/evaluator.py: evaluate_module with  *)
(*                 run_evaluation over the output of the PromptFoo run.    *)
(* SpecRecommendation : the recommendation of evaluate_module as a         *)
(*                 function of the improvement it is given.                *)
(* SpecContextEvaluator : run_evaluation of                                *)
(*                 src/scripts/context/context_evaluator.py.               *)
(*                                                                         *)
(* Python floats are modelled as exact rationals [num, den]; round(x, 2)   *)
(* yields an integer number of hundredths.                                 *)
(*                                                                         *)
(* The UPDATE ... ORDER BY ... LIMIT statement of                          *)
(* mark_optimization_applied is modelled for SQLite builds that accept it  *)
(* (SQLITE_ENABLE_UPDATE_DELETE_LIMIT).  SQL leaves the order of rows with *)
(* equal timestamp open, so the row is chosen among them.                  *)
(***************************************************************************)
EXTENDS Integers, Sequences, FiniteSets, TLC

\* ------------------------------------------------------------------------
\* Bounds of the model
\* ------------------------------------------------------------------------
MaxRuns == 2
MaxTests == 2
MaxImprovement == 1200
MaxRows == 2
MaxFeedback == 3
MaxContent == 6
MaxTokens == 2
MaxBatch == 2
MaxSeconds == 2
MaxModules == 2
MaxEntries == 10

\* assertions generate_test_cases of context_evaluator.py gives a test
AssertionsPerTest == 3

\* assertions of the single test it falls back to
FallbackAssertions == 1

\* ------------------------------------------------------------------------
\* Input domains
\* ------------------------------------------------------------------------
Callers == {"c1", "c2"}
Pairs == {<<"m1", "claude">>, <<"m1", "gpt">>, <<"m2", "claude">>}
TokenCounts == {<<1000, 800>>}
ImprovementPercents == {20}

VARIABLES
    optimization_results,   \* table optimization_results, row i has id i
    writer,                 \* the connection holding SQLite's write lock
    call,                   \* per caller: position in mark_optimization_applied
    last_mark,              \* the pair of the latest UPDATE and its run count
    files,                  \* which of the module's two files exist
    promptfoo,              \* what the PromptFoo run of this evaluation yields
    eval_pc,                \* "ready" before the evaluation, "done" after
    eval_results,           \* what run_evaluation returned
    results,                \* what evaluate_module returned
    feedback,               \* table feedback of context_feedback.py
    now,                    \* datetime.now(), in hours
    reply,                  \* what the latest context_feedback.py call returned
    content,                \* the module content, as a sequence of tokens
    key_terms,              \* what the latest _extract_key_terms call returned
    test_cases,             \* what the latest generate_test_cases call returned
    disk,                   \* the files of a module: original, optimized, backups
    held                    \* what the original held just before each apply

storeVars == <<optimization_results, writer, call, last_mark>>
scorerVars == <<files, promptfoo, eval_pc, eval_results, results>>
feedbackVars == <<feedback, now, reply>>
probeVars == <<content, key_terms, test_cases>>
fsVars == <<disk, held>>
vars == <<optimization_results, writer, call, last_mark,
          files, promptfoo, eval_pc, eval_results, results,
          feedback, now, reply,
          content, key_terms, test_cases,
          disk, held>>

\* ------------------------------------------------------------------------
\* src/feedback_system.py: table optimization_results
\* ------------------------------------------------------------------------
NewRow(id, module_name, target_model, orig_tok, opt_tok, improvement_percent, timestamp, is_applied) ==
    [id |-> id, module_name |-> module_name, target_model |-> target_model,
     original_tokens |-> orig_tok, optimized_tokens |-> opt_tok,
     improvement_percent |-> improvement_percent, timestamp |-> timestamp,
     is_applied |-> is_applied]

\* timestamp DATETIME DEFAULT CURRENT_TIMESTAMP: whole seconds of a clock that
\* does not go back; since the last INSERT it is in the same second or a later
\* one (timestamps are only compared, so one later second stands for all)
CURRENT_TIMESTAMP(rows) ==
    IF rows = <<>> THEN {0}
    ELSE {rows[Len(rows)].timestamp, rows[Len(rows)].timestamp + 1}

\* WHERE module_name = ? AND target_model = ?
Matching(rows, module_name, target_model) ==
    {i \in DOMAIN rows : /\ rows[i].module_name = module_name
                         /\ rows[i].target_model = target_model}

MostRecentOldest(rows, module_name, target_model) ==
    {i \in Matching(rows, module_name, target_model) :
        \A j \in Matching(rows, module_name, target_model) :
            rows[j].timestamp >= rows[i].timestamp}

\* ORDER BY timestamp DESC LIMIT 1: the rows that may come first
MostRecent(rows, module_name, target_model) ==
    {i \in Matching(rows, module_name, target_model) :
        \A j \in Matching(rows, module_name, target_model) :
            rows[j].timestamp <= rows[i].timestamp}

SetAppliedToggle(rows, i) == [rows EXCEPT ![i].is_applied = ~@]

\* SET is_applied = 1
SetApplied(rows, i) == [rows EXCEPT ![i].is_applied = TRUE]

\* cursor.rowcount of the UPDATE: rows matched, also when already applied
RowCount(rows, module_name, target_model) ==
    IF Matching(rows, module_name, target_model) = {} THEN 0 ELSE 1

SuccessAlways(rowcount) == rowcount >= 0

\* success = cursor.rowcount > 0
Success(rowcount) == rowcount > 0

Idle == [pc |-> "idle"]

\* observation kept with a call: the pair has a run and its most recent run
\* is not applied at the moment the call begins
LatestUnapplied(rows, module_name, target_model) ==
    /\ MostRecent(rows, module_name, target_model) # {}
    /\ \A i \in MostRecent(rows, module_name, target_model) : ~rows[i].is_applied

\* record_optimization: INSERT, commit
record_optimization(module_name, target_model, original_tokens, optimized_tokens, improvement_percent, is_applied) ==
    /\ writer = "none"
    /\ Len(optimization_results) < MaxRuns
    /\ \E timestamp \in CURRENT_TIMESTAMP(optimization_results) :
          optimization_results' = Append(optimization_results,
              NewRow(Len(optimization_results) + 1, module_name, target_model,
                     original_tokens, optimized_tokens, improvement_percent,
                     timestamp, is_applied))
    /\ UNCHANGED <<writer, call, last_mark, scorerVars, feedbackVars, probeVars, fsVars>>

\* mark_optimization_applied: sqlite3.connect, conn.cursor
MarkConnect(c, module_name, target_model) ==
    /\ call[c].pc \in {"idle", "returned"}
    /\ call' = [call EXCEPT ![c] =
          [pc |-> "connected", module_name |-> module_name,
           target_model |-> target_model,
           unapplied |-> LatestUnapplied(optimization_results,
                                         module_name, target_model)]]
    /\ UNCHANGED <<optimization_results, writer, last_mark, scorerVars, feedbackVars, probeVars, fsVars>>

\* mark_optimization_applied: cursor.execute(UPDATE ...), takes the write lock
MarkExecute(c) ==
    /\ call[c].pc = "connected"
    /\ writer = "none"
    /\ LET m == call[c].module_name
           t == call[c].target_model
           rowcount == RowCount(optimization_results, m, t)
       IN  /\ IF rowcount = 0
              THEN /\ optimization_results' = optimization_results
                   /\ call' = [call EXCEPT ![c] =
                         [pc |-> "updated", module_name |-> m, target_model |-> t,
                          rowcount |-> rowcount, flipped |-> FALSE]]
              ELSE \E i \in MostRecent(optimization_results, m, t) :
                   /\ optimization_results' = SetApplied(optimization_results, i)
                   /\ call' = [call EXCEPT ![c] =
                         [pc |-> "updated", module_name |-> m, target_model |-> t,
                          rowcount |-> rowcount,
                          flipped |-> ~optimization_results[i].is_applied]]
           /\ last_mark' = [module_name |-> m, target_model |-> t,
                            nruns |-> Cardinality(Matching(optimization_results, m, t))]
    /\ writer' = c
    /\ UNCHANGED <<scorerVars, feedbackVars, probeVars, fsVars>>

\* mark_optimization_applied: success = rowcount > 0; conn.commit();
\* conn.close(); log; return success
MarkCommit(c) ==
    /\ call[c].pc = "updated"
    /\ writer = c
    /\ writer' = "none"
    /\ call' = [call EXCEPT ![c] =
          [pc |-> "returned", success |-> Success(call[c].rowcount)]]
    /\ UNCHANGED <<optimization_results, last_mark, scorerVars, feedbackVars, probeVars, fsVars>>

StoreInit ==
    /\ optimization_results = <<>>
    /\ writer = "none"
    /\ call = [c \in Callers |-> Idle]
    /\ last_mark = [module_name |-> "", target_model |-> "", nruns |-> 0]

None == "None"

\* context_feedback.py before any call: empty table, nothing returned
FeedbackIdle ==
    /\ feedback = <<>>
    /\ now = 0
    /\ reply = [op |-> "none"]

\* no module content read, no probe generated
ProbeIdle ==
    /\ content = <<>>
    /\ key_terms = None
    /\ test_cases = <<>>

Absent == "absent"

\* no file of a module is looked at
DiskIdle ==
    /\ disk = [original |-> Absent, optimized |-> Absent, backups |-> {},
               others |-> {}]
    /\ held = {}

\* ------------------------------------------------------------------------
\* Rationals for Python floats
\* ------------------------------------------------------------------------
RECURSIVE GCD(_, _)
GCD(a, b) == IF b = 0 THEN a ELSE GCD(b, a % b)

Abs(x) == IF x < 0 THEN -x ELSE x

\* n / d for d > 0, in lowest terms
Frac(n, d) == [num |-> n \div GCD(Abs(n), d), den |-> d \div GCD(Abs(n), d)]

FracSub(a, b) == Frac(a.num * b.den - b.num * a.den, a.den * b.den)

\* a / b for b > 0
FracDiv(a, b) == Frac(a.num * b.den, a.den * b.num)

FracTimes(a, k) == Frac(a.num * k, a.den)

\* a > k, a < k for an integer k
FracGT(a, k) == a.num > k * a.den
FracLT(a, k) == a.num < k * a.den

\* ------------------------------------------------------------------------
\* src/scripts/context/evaluator.py: ContextEvaluator
\* ------------------------------------------------------------------------
Versions == {"original", "optimized"}

\* a promptResults entry of one test: missing, success false or success true
PromptResults == {"absent", "fail", "pass"}

\* output["results"]: per test, the prompt result of each of the two prompts
TestResults == [Versions -> PromptResults]

\* the PromptFoo subprocess: exit status and stdout
PromptFooRuns(max_tests) ==
    {[status |-> st, results |-> <<>>] :
        st \in {"CalledProcessError", "JSONDecodeError", "Exception"}}
    \cup {[status |-> "ok", results |-> r] :
            r \in UNION {[1..n -> TestResults] : n \in 0..max_tests}}

\* scores[prompt_name]["total"] += 1
ScoreTotal(test_results, version) ==
    Cardinality({i \in DOMAIN test_results : test_results[i][version] # "absent"})

\* if prompt_result.get("success", False): scores[prompt_name]["passed"] += 1
ScorePassed(test_results, version) ==
    Cardinality({i \in DOMAIN test_results : test_results[i][version] = "pass"})

\* if total > 0: score = (passed / total) * 100, else the initial 0.0
VersionScore(passed, total) ==
    IF total > 0 THEN Frac(100 * passed, total) ELSE Frac(0, 1)

Scores(test_results) ==
    [v \in Versions |->
        [total |-> ScoreTotal(test_results, v),
         passed |-> ScorePassed(test_results, v),
         score |-> VersionScore(ScorePassed(test_results, v),
                                ScoreTotal(test_results, v))]]

\* improvement = 0; if original score > 0:
\*   ((optimized score - original score) / original score) * 100
Improvement(scores) ==
    IF scores["original"].score.num > 0
    THEN FracTimes(FracDiv(FracSub(scores["optimized"].score,
                                   scores["original"].score),
                           scores["original"].score), 100)
    ELSE Frac(0, 1)

Failure(error) == [success |-> FALSE, error |-> error]

evaluator_run_evaluation(run) ==
    IF run.status = "CalledProcessError" THEN Failure("Evaluation process failed")
    ELSE IF run.status = "JSONDecodeError" THEN Failure("Error parsing evaluation output")
    ELSE IF run.status = "Exception" THEN Failure("Error running evaluation")
    ELSE [success |-> TRUE,
          scores |-> Scores(run.results),
          improvement |-> Improvement(Scores(run.results))]

RecommendationInclusive(improvement) ==
    IF ~FracLT(improvement, 10) THEN "apply"
    ELSE IF ~FracGT(improvement, -5) THEN "reject"
    ELSE "neutral"

\* "neutral" unless improvement > 10 ("apply") or improvement < -5 ("reject")
Recommendation(improvement) ==
    IF FracGT(improvement, 10) THEN "apply"
    ELSE IF FracLT(improvement, -5) THEN "reject"
    ELSE "neutral"

\* evaluate_module once run_evaluation has returned
ModuleResults(er) ==
    IF ~er.success THEN er
    ELSE [success |-> TRUE, scores |-> er.scores,
          improvement |-> er.improvement,
          recommendation |-> Recommendation(er.improvement)]

NotRun == Failure("not run")

ScorerIdle ==
    /\ files = [original |-> TRUE, optimized |-> TRUE]
    /\ promptfoo = [status |-> "Exception", results |-> <<>>]
    /\ eval_pc = "idle"
    /\ eval_results = NotRun
    /\ results = NotRun

EvaluateUnchecked(f, run) ==
    IF ~f.original THEN Failure("Original module not found")
    ELSE ModuleResults(evaluator_run_evaluation(run))

\* what evaluate_module returns for the files f and the PromptFoo run
EvaluateModule(f, run) ==
    IF ~f.original THEN Failure("Original module not found")
    ELSE IF ~f.optimized THEN Failure("Optimized module not found")
    ELSE ModuleResults(evaluator_run_evaluation(run))

evaluator_evaluate_module ==
    /\ eval_pc = "ready"
    /\ eval_pc' = "done"
    /\ eval_results' = IF files.original /\ files.optimized
                       THEN evaluator_run_evaluation(promptfoo)
                       ELSE eval_results
    /\ results' = EvaluateModule(files, promptfoo)
    /\ UNCHANGED <<files, promptfoo, storeVars, feedbackVars, probeVars, fsVars>>

EvaluatorInit ==
    /\ StoreInit
    /\ FeedbackIdle
    /\ ProbeIdle
    /\ DiskIdle
    /\ files \in [original : BOOLEAN, optimized : BOOLEAN]
    /\ promptfoo \in PromptFooRuns(MaxTests)
    /\ eval_pc = "ready"
    /\ eval_results = NotRun
    /\ results = NotRun

EvaluatorNext == evaluator_evaluate_module

SpecEvaluator == EvaluatorInit /\ [][EvaluatorNext]_vars

\* evaluate_module from the point where run_evaluation has returned
\* eval_results
Recommend ==
    /\ eval_pc = "ready"
    /\ eval_pc' = "done"
    /\ results' = ModuleResults(eval_results)
    /\ UNCHANGED <<files, promptfoo, eval_results, storeVars, feedbackVars, probeVars, fsVars>>

\* improvements from -MaxImprovement to MaxImprovement hundredths
RecommendationInit ==
    /\ StoreInit
    /\ FeedbackIdle
    /\ ProbeIdle
    /\ DiskIdle
    /\ files = [original |-> TRUE, optimized |-> TRUE]
    /\ promptfoo = [status |-> "ok", results |-> <<>>]
    /\ eval_pc = "ready"
    /\ \E h \in -MaxImprovement..MaxImprovement :
          eval_results = [success |-> TRUE, scores |-> Scores(<<>>),
                          improvement |-> Frac(h, 100)]
    /\ results = NotRun

RecommendationNext == Recommend

SpecRecommendation == RecommendationInit /\ [][RecommendationNext]_vars

\* ------------------------------------------------------------------------
\* src/scripts/context/context_evaluator.py: ContextEvaluator.run_evaluation
\* ------------------------------------------------------------------------
Prompts == {"Original", "Optimized"}

\* lengths of an "assertion" list: missing or empty, or as configured
AssertionCounts == {0, FallbackAssertions, AssertionsPerTest}

\* a promptResults entry of one test: missing, or its "assertion" list as
\* the number of entries and the number of them with passed true
AssertionResults ==
    {[present |-> FALSE, passed |-> 0, total |-> 0]}
    \cup {[present |-> TRUE, passed |-> pt[1], total |-> pt[2]] :
            pt \in {pt \in (0..AssertionsPerTest) \X AssertionCounts :
                       pt[1] <= pt[2]}}

AssertedTests == [Prompts -> AssertionResults]

\* the promptfoo subprocess: return code and the result file it writes
AssertedRuns(max_tests) ==
    {[status |-> st, results |-> <<>>] :
        st \in {"returncode", "no result file", "Exception"}}
    \cup {[status |-> "ok", results |-> r] :
            r \in UNION {[1..n -> AssertedTests] : n \in 0..max_tests}}

FracAdd(a, b) == Frac(a.num * b.den + b.num * a.den, a.den * b.den)

\* round(x, 2) as a number of hundredths: nearest, ties to even
Round2(x) ==
    LET n == x.num * 100
        q == n \div x.den
        r == n - q * x.den
    IN  IF 2 * r < x.den THEN q
        ELSE IF 2 * r > x.den THEN q + 1
        ELSE IF q % 2 = 0 THEN q ELSE q + 1

\* score / total if total > 0 else 0
PassFraction(pr) ==
    IF pr.present /\ pr.total > 0 THEN Frac(pr.passed, pr.total) ELSE Frac(0, 1)

\* original_score += ..., optimized_score += ... over the first n tests
RECURSIVE SumFractions(_, _, _)
SumFractions(tests, prompt, n) ==
    IF n = 0 THEN Frac(0, 1)
    ELSE FracAdd(SumFractions(tests, prompt, n - 1), PassFraction(tests[n][prompt]))

\* original_score / total_tests * 100
NormalizedScore(tests, prompt) ==
    Frac(SumFractions(tests, prompt, Len(tests)).num * 100,
         SumFractions(tests, prompt, Len(tests)).den * Len(tests))

\* (improvement / original_score * 100) if original_score > 0 else 0
ImprovementPercent(improvement, original_score) ==
    IF original_score.num > 0
    THEN FracTimes(FracDiv(improvement, original_score), 100)
    ELSE Frac(0, 1)

context_evaluator_run_evaluation(run) ==
    IF run.status = "returncode" THEN Failure("stderr")
    ELSE IF run.status = "no result file" THEN Failure("Evaluation result file not found")
    ELSE IF run.status = "Exception" THEN Failure("exception")
    ELSE IF Len(run.results) = 0 THEN Failure("No test results found")
    ELSE LET original_score == NormalizedScore(run.results, "Original")
             optimized_score == NormalizedScore(run.results, "Optimized")
             improvement == FracSub(optimized_score, original_score)
         IN  [success |-> TRUE,
              original_score |-> Round2(original_score),
              optimized_score |-> Round2(optimized_score),
              improvement |-> Round2(improvement),
              improvement_percent |->
                  Round2(ImprovementPercent(improvement, original_score)),
              total_tests |-> Len(run.results)]

ContextEvaluatorRun ==
    /\ eval_pc = "ready"
    /\ eval_pc' = "done"
    /\ eval_results' = context_evaluator_run_evaluation(promptfoo)
    /\ UNCHANGED <<files, promptfoo, results, storeVars, feedbackVars, probeVars, fsVars>>

ContextEvaluatorInit ==
    /\ StoreInit
    /\ FeedbackIdle
    /\ ProbeIdle
    /\ DiskIdle
    /\ files = [original |-> TRUE, optimized |-> TRUE]
    /\ promptfoo \in AssertedRuns(MaxTests)
    /\ eval_pc = "ready"
    /\ eval_results = NotRun
    /\ results = NotRun

ContextEvaluatorNext == ContextEvaluatorRun

SpecContextEvaluator == ContextEvaluatorInit /\ [][ContextEvaluatorNext]_vars

\* ------------------------------------------------------------------------
\* src/scripts/context/context_feedback.py: ContextFeedback, the two tables
\* ------------------------------------------------------------------------
\* default of the limit parameter of the two queries
DefaultLimit == 10

Limits == {1, DefaultLimit}

\* module_name, target_model arguments; "" is falsy like None
ModuleFilters == {None, "m1"}
ModelFilters == {None, "claude"}
FeedbackArgs == Pairs \cup {<<"", "claude">>}

\* score arguments: Python ints, a bool, a float and a str
ScoreInputs ==
    {[type |-> "int", value |-> v] : v \in {0, 10, 11}}
    \cup {[type |-> "bool", value |-> 1],
          [type |-> "float", value |-> 7],
          [type |-> "str", value |-> 7]}

\* not (not isinstance(score, int) or score < 1 or score > 10); a bool is an int
ValidScoreFrom0(score) ==
    /\ score.type \in {"int", "bool"}
    /\ score.value >= 0
    /\ score.value <= 10

ValidScore(score) ==
    /\ score.type \in {"int", "bool"}
    /\ score.value >= 1
    /\ score.value <= 10

\* datetime.now() read by an operation: the clock has moved on or not
Clock == {now, now + 1}

\* cursor.execute("INSERT INTO feedback ..."), conn.commit()
InsertFeedbackOverLast(rows, row) ==
    IF rows = <<>> THEN <<row>> ELSE [rows EXCEPT ![Len(rows)] = row]

InsertFeedback(rows, row) == Append(rows, row)

add_feedback(module_name, target_model, score) ==
    /\ Len(feedback) + Len(optimization_results) < MaxRows
    /\ IF module_name = "" \/ target_model = ""
       THEN /\ reply' = [op |-> "add_feedback", success |-> FALSE,
                         error |-> "Module name and target model are required"]
            /\ UNCHANGED <<feedback, now>>
       ELSE IF ~ValidScore(score)
       THEN /\ reply' = [op |-> "add_feedback", success |-> FALSE,
                         error |-> "Score must be an integer between 1 and 10"]
            /\ UNCHANGED <<feedback, now>>
       ELSE /\ now' \in Clock
            /\ feedback' = InsertFeedback(feedback,
                  [id |-> Len(feedback) + 1, module_name |-> module_name,
                   target_model |-> target_model, score |-> score.value,
                   comment |-> None, source |-> "user", timestamp |-> now'])
            /\ reply' = [op |-> "add_feedback", success |-> TRUE,
                         id |-> Len(feedback) + 1, score |-> score.value]
    /\ UNCHANGED <<storeVars, scorerVars, probeVars, fsVars>>

\* evaluation_result.get(key)
Get(d, key) == IF key \in DOMAIN d THEN d[key] ELSE None

\* evaluation_result arguments: what run_evaluation of context_evaluator.py
\* returns for a failed PromptFoo run and for a run of one test
EvaluationResults ==
    {context_evaluator_run_evaluation(run) :
        run \in {[status |-> "returncode", results |-> <<>>],
                 [status |-> "ok", results |->
                    <<[Original |-> [present |-> TRUE, passed |-> 1, total |-> 3],
                       Optimized |-> [present |-> TRUE, passed |-> 2, total |-> 3]]>>]}}

add_optimization_result(module_name, target_model, evaluation_result, applied) ==
    /\ Len(feedback) + Len(optimization_results) < MaxRows
    /\ IF module_name = "" \/ target_model = ""
       THEN /\ reply' = [op |-> "add_optimization_result", success |-> FALSE,
                         error |-> "Module name and target model are required"]
            /\ UNCHANGED <<optimization_results, now>>
       ELSE /\ now' \in Clock
            /\ optimization_results' = Append(optimization_results,
                  [id |-> Len(optimization_results) + 1,
                   module_name |-> module_name, target_model |-> target_model,
                   original_score |-> Get(evaluation_result, "original_score"),
                   optimized_score |-> Get(evaluation_result, "optimized_score"),
                   improvement |-> Get(evaluation_result, "improvement"),
                   timestamp |-> now',
                   status |-> IF evaluation_result.success THEN "success" ELSE "failed",
                   applied |-> applied,
                   error |-> IF evaluation_result.success THEN None
                             ELSE Get(evaluation_result, "error")])
            /\ reply' = [op |-> "add_optimization_result", success |-> TRUE,
                         id |-> Len(optimization_results) + 1]
    /\ UNCHANGED <<feedback, writer, call, last_mark, scorerVars, probeVars, fsVars>>

\* WHERE module_name = ? AND target_model = ?, each condition only for an
\* argument that is given
Filtered(rows, module_name, target_model) ==
    {i \in DOMAIN rows :
        /\ module_name # None => rows[i].module_name = module_name
        /\ target_model # None => rows[i].target_model = target_model}

\* ORDER BY timestamp DESC: the orders of the rows in S SQLite may produce
OrderByTimestampAsc(rows, S) ==
    {q \in [1..Cardinality(S) -> S] :
        /\ \A a, b \in DOMAIN q : a # b => q[a] # q[b]
        /\ \A a, b \in DOMAIN q :
              a < b => rows[q[a]].timestamp <= rows[q[b]].timestamp}

OrderByTimestampDesc(rows, S) ==
    {q \in [1..Cardinality(S) -> S] :
        /\ \A a, b \in DOMAIN q : a # b => q[a] # q[b]
        /\ \A a, b \in DOMAIN q :
              a < b => rows[q[a]].timestamp >= rows[q[b]].timestamp}

\* LIMIT ?
Limit(q, limit) == SubSeq(q, 1, IF Len(q) < limit THEN Len(q) ELSE limit)

\* cursor.fetchall() turned into a list of dictionaries
Select(rows, module_name, target_model, limit) ==
    {[k \in DOMAIN Limit(q, limit) |-> rows[Limit(q, limit)[k]]] :
        q \in OrderByTimestampDesc(rows, Filtered(rows, module_name, target_model))}

get_module_feedback(module_name, target_model, limit) ==
    /\ \E fetched \in Select(feedback, module_name, target_model, limit) :
          reply' = [op |-> "get_module_feedback", success |-> TRUE,
                    module_name |-> module_name, target_model |-> target_model,
                    limit |-> limit, feedback |-> fetched]
    /\ UNCHANGED <<feedback, now, storeVars, scorerVars, probeVars, fsVars>>

get_optimization_results(module_name, target_model, limit) ==
    /\ \E fetched \in Select(optimization_results, module_name, target_model, limit) :
          reply' = [op |-> "get_optimization_results", success |-> TRUE,
                    module_name |-> module_name, target_model |-> target_model,
                    limit |-> limit, results |-> fetched]
    /\ UNCHANGED <<feedback, now, storeVars, scorerVars, probeVars, fsVars>>

ContextFeedbackInit ==
    /\ StoreInit
    /\ ScorerIdle
    /\ FeedbackIdle
    /\ ProbeIdle
    /\ DiskIdle

AddFeedbackStep ==
    \E args \in FeedbackArgs : \E score \in ScoreInputs :
        add_feedback(args[1], args[2], score)

AddResultStep ==
    \E args \in FeedbackArgs : \E er \in EvaluationResults :
        add_optimization_result(args[1], args[2], er, FALSE)

GetFeedbackStep ==
    \E module_name \in ModuleFilters : \E target_model \in ModelFilters :
        \E limit \in Limits :
            get_module_feedback(module_name, target_model, limit)

GetResultsStep ==
    \E module_name \in ModuleFilters : \E target_model \in ModelFilters :
        \E limit \in Limits :
            get_optimization_results(module_name, target_model, limit)

ContextFeedbackNext ==
    \/ AddFeedbackStep
    \/ AddResultStep
    \/ GetFeedbackStep
    \/ GetResultsStep

SpecContextFeedback == ContextFeedbackInit /\ [][ContextFeedbackNext]_vars

\* ------------------------------------------------------------------------
\* context_feedback.py: calculate_module_effectiveness and
\* identify_modules_for_improvement
\* ------------------------------------------------------------------------
\* feedback_count >= 3, effectiveness < 70, .days > 30
MinFeedback == 3
MaxEffectiveness == 70
CooldownDays == 30
HoursPerDay == 24

\* timedelta.days of a difference given in hours
Days(hours) == hours \div HoursPerDay

\* SELECT * FROM feedback WHERE module_name = ? [AND target_model = ?]
FeedbackOf(module_name, target_model) ==
    Filtered(feedback, module_name, target_model)

RECURSIVE SumScores(_)
SumScores(S) ==
    IF S = {} THEN 0
    ELSE LET i == CHOOSE i \in S : TRUE
         IN  feedback[i].score + SumScores(S \ {i})

\* df['score'].mean()
AvgScore(S) == Frac(SumScores(S), Cardinality(S))

\* (avg_score - 1) / 9 * 100
Effectiveness(avg_score) ==
    Frac((avg_score.num - avg_score.den) * 100, avg_score.den * 9)

\* ... ORDER BY timestamp DESC LIMIT 1: the rows that may come first
LatestRuns(module_name, target_model) ==
    {i \in Filtered(optimization_results, module_name, target_model) :
        \A j \in Filtered(optimization_results, module_name, target_model) :
            optimization_results[j].timestamp <= optimization_results[i].timestamp}

\* (datetime.now() - last_timestamp).days > 30
CooledDown(last_timestamp) == Days(now - last_timestamp) > CooldownDays

NeedsOptimization(effectiveness, feedback_count, runs) ==
    IF runs = {}
    THEN FracLT(effectiveness, MaxEffectiveness) /\ feedback_count >= MinFeedback
    ELSE /\ \E i \in runs : CooledDown(optimization_results[i].timestamp)
         /\ FracLT(effectiveness, MaxEffectiveness)
         /\ feedback_count >= MinFeedback

calculate_module_effectiveness(module_name, target_model) ==
    /\ reply' =
          IF FeedbackOf(module_name, target_model) = {}
          THEN [op |-> "calculate_module_effectiveness", success |-> TRUE,
                module_name |-> module_name, target_model |-> target_model,
                feedback_count |-> 0, avg_score |-> None, effectiveness |-> None,
                needs_optimization |-> FALSE]
          ELSE LET S == FeedbackOf(module_name, target_model)
               IN  [op |-> "calculate_module_effectiveness", success |-> TRUE,
                    module_name |-> module_name, target_model |-> target_model,
                    feedback_count |-> Cardinality(S),
                    avg_score |-> Round2(AvgScore(S)),
                    effectiveness |-> Round2(Effectiveness(AvgScore(S))),
                    needs_optimization |->
                        NeedsOptimization(Effectiveness(AvgScore(S)), Cardinality(S),
                                          LatestRuns(module_name, target_model))]
    /\ UNCHANGED <<feedback, now, storeVars, scorerVars, probeVars, fsVars>>

\* SELECT module_name, COUNT(*), AVG(score) FROM feedback [WHERE target_model = ?]
\* GROUP BY module_name HAVING COUNT(*) >= ?
FeedbackGroups(min_feedback, target_model) ==
    {m \in {feedback[i].module_name : i \in Filtered(feedback, None, target_model)} :
        Cardinality(Filtered(feedback, m, target_model)) >= min_feedback}

\* df[df['effectiveness'] <= max_effectiveness]
LowEffectiveness(groups, max_effectiveness, target_model) ==
    {m \in groups :
        ~FracGT(Effectiveness(AvgScore(Filtered(feedback, m, target_model))),
                max_effectiveness)}

\* never optimized, or (datetime.now() - last_timestamp).days > 30
NotOptimizedRecently(modules, target_model) ==
    {m \in modules :
        \/ LatestRuns(m, target_model) = {}
        \/ \E i \in LatestRuns(m, target_model) :
              CooledDown(optimization_results[i].timestamp)}

ModuleToImprove(m, target_model) ==
    [module_name |-> m,
     feedback_count |-> Cardinality(Filtered(feedback, m, target_model)),
     avg_score |-> Round2(AvgScore(Filtered(feedback, m, target_model))),
     effectiveness |->
         Round2(Effectiveness(AvgScore(Filtered(feedback, m, target_model)))),
     last_optimization |->
         IF LatestRuns(m, target_model) = {} THEN None
         ELSE optimization_results[CHOOSE i \in LatestRuns(m, target_model) : TRUE].timestamp]

\* the orders in which the rows of a query without ORDER BY may come
Orderings(S) ==
    {q \in [1..Cardinality(S) -> S] : \A a, b \in DOMAIN q : a # b => q[a] # q[b]}

\* modules_to_improve.sort(key=lambda x: x["effectiveness"]), a stable sort
SortedByEffectiveness(modules, target_model) ==
    {[k \in DOMAIN q |-> ModuleToImprove(q[k], target_model)] :
        q \in {q \in Orderings(modules) :
                 \A a, b \in DOMAIN q : a < b =>
                     ModuleToImprove(q[a], target_model).effectiveness
                         <= ModuleToImprove(q[b], target_model).effectiveness}}

identify_modules_for_improvement(min_feedback, max_effectiveness, target_model) ==
    /\ \E modules_to_improve \in
            SortedByEffectiveness(
                NotOptimizedRecently(
                    LowEffectiveness(FeedbackGroups(min_feedback, target_model),
                                     max_effectiveness, target_model),
                    target_model),
                target_model) :
          reply' = [op |-> "identify_modules_for_improvement", success |-> TRUE,
                    min_feedback |-> min_feedback,
                    max_effectiveness |-> max_effectiveness,
                    target_model |-> target_model,
                    modules_to_improve |-> modules_to_improve]
    /\ UNCHANGED <<feedback, now, storeVars, scorerVars, probeVars, fsVars>>

\* a store that add_feedback and add_optimization_result have filled: feedback
\* with scores 2 and 8, runs of 5 days, 30 days, just under 31 days and 31
\* days ago, rows in the order of their timestamps
ModuleNames == {"m1", "m2"}
RunAges == {5 * HoursPerDay, CooldownDays * HoursPerDay,
            (CooldownDays + 1) * HoursPerDay - 1, (CooldownDays + 1) * HoursPerDay}
Horizon == (CooldownDays + 1) * HoursPerDay

FeedbackTables(max_feedback) ==
    UNION {{[i \in 1..n |->
                [id |-> i, module_name |-> f[i][1], target_model |-> "claude",
                 score |-> f[i][2], comment |-> None, source |-> "user",
                 timestamp |-> 0]] :
              f \in {f \in [1..n -> ModuleNames \X {2, 8}] :
                       \A a, b \in 1..n : a < b =>
                           \/ f[a][1] = "m1" /\ f[b][1] = "m2"
                           \/ f[a][1] = f[b][1] /\ f[a][2] <= f[b][2]}} :
           n \in 0..max_feedback}

RunTables(max_runs) ==
    UNION {{[i \in 1..n |->
                [id |-> i, module_name |-> r[i][1], target_model |-> r[i][2],
                 original_score |-> 3333, optimized_score |-> 6667,
                 improvement |-> 3333, timestamp |-> Horizon - r[i][3],
                 status |-> "success", applied |-> FALSE, error |-> None]] :
              r \in {r \in [1..n -> {"m1"} \X {"claude", "gpt"} \X RunAges] :
                       \A a, b \in 1..n : a < b => r[a][3] >= r[b][3]}} :
           n \in 0..max_runs}

RankingInit ==
    /\ writer = "none"
    /\ call = [c \in Callers |-> Idle]
    /\ last_mark = [module_name |-> "", target_model |-> "", nruns |-> 0]
    /\ ScorerIdle
    /\ feedback \in FeedbackTables(MaxFeedback)
    /\ optimization_results \in RunTables(MaxRuns)
    /\ now = Horizon
    /\ reply = [op |-> "none"]
    /\ ProbeIdle
    /\ DiskIdle

EffectivenessStep ==
    \E module_name \in ModuleNames : \E target_model \in ModelFilters :
        calculate_module_effectiveness(module_name, target_model)

IdentifyStep ==
    \E min_feedback \in {1, MinFeedback} : \E target_model \in ModelFilters :
        identify_modules_for_improvement(min_feedback, MaxEffectiveness, target_model)

RankingNext ==
    \/ EffectivenessStep
    \/ IdentifyStep

SpecRanking == RankingInit /\ [][RankingNext]_vars

\* a feedback table of one module whose average can be exactly at the
\* threshold: effectiveness 70 is an average score of 7.3, which integer
\* scores reach with ten entries (nine of 7 and one of 10)
ThresholdTables(max_entries) ==
    UNION {{[i \in 1..n |->
                [id |-> i, module_name |-> "m1", target_model |-> "claude",
                 score |-> IF i <= k THEN 7 ELSE 10, comment |-> None,
                 source |-> "user", timestamp |-> 0]] :
              k \in 0..n} :
           n \in 0..max_entries}

ThresholdInit ==
    /\ writer = "none"
    /\ call = [c \in Callers |-> Idle]
    /\ last_mark = [module_name |-> "", target_model |-> "", nruns |-> 0]
    /\ ScorerIdle
    /\ feedback \in ThresholdTables(MaxEntries)
    /\ optimization_results \in RunTables(MaxRuns)
    /\ now = Horizon
    /\ reply = [op |-> "none"]
    /\ ProbeIdle
    /\ DiskIdle

ThresholdNext ==
    \/ EffectivenessStep
    \/ IdentifyStep

SpecThreshold == ThresholdInit /\ [][ThresholdNext]_vars

\* ------------------------------------------------------------------------
\* src/scripts/context/feedback.py: get_module_effectiveness and
\* get_modules_for_optimization over table module_feedback
\* ------------------------------------------------------------------------
FeedbackTypes == {"effective", "ineffective"}
RatedModules == {"m1", "m2", "m3"}

\* module_feedback as record_feedback fills it, with the default effectiveness
\* rating None
ModuleFeedbackTables(max_feedback) ==
    UNION {{[i \in 1..n |->
                [id |-> i, module_name |-> f[i][1], feedback_type |-> f[i][2],
                 effectiveness |-> None, target_model |-> "claude", timestamp |-> 0]] :
              f \in {f \in [1..n -> RatedModules \X FeedbackTypes] :
                       \A a, b \in 1..n : a < b =>
                           \/ f[a][1] = f[b][1] /\ f[a][2] = "effective"
                           \/ f[a][1] = f[b][1] /\ f[a][2] = f[b][2]
                           \/ f[a][1] = "m1" /\ f[b][1] # "m1"
                           \/ f[a][1] = "m2" /\ f[b][1] = "m3"}} :
           n \in 0..max_feedback}

\* one row of SELECT module_name, COUNT(*), SUM(CASE WHEN feedback_type =
\* 'effective' ...) ... GROUP BY module_name, with effectiveness_percent =
\* effective_count / feedback_count * 100
ModuleEffectiveness(m, target_model) ==
    LET S == Filtered(feedback, m, target_model)
        effective == {i \in S : feedback[i].feedback_type = "effective"}
    IN  [module_name |-> m,
         feedback_count |-> Cardinality(S),
         effective_count |-> Cardinality(effective),
         effectiveness_percent |->
             IF Cardinality(S) > 0
             THEN Frac(Cardinality(effective) * 100, Cardinality(S))
             ELSE Frac(0, 1)]

get_module_effectiveness(target_model) ==
    {ModuleEffectiveness(m, target_model) :
        m \in {feedback[i].module_name : i \in Filtered(feedback, None, target_model)}}

\* feedback_count >= min_feedback and effectiveness_percent <= max_effectiveness
Candidates(min_feedback, max_effectiveness, target_model) ==
    {module \in get_module_effectiveness(target_model) :
        /\ module.feedback_count >= min_feedback
        /\ ~FracGT(module.effectiveness_percent, max_effectiveness)}

\* a's sort key is at most b's
KeyLessEqNoCount(a, b) ==
    a.effectiveness_percent.num * b.effectiveness_percent.den
        <= b.effectiveness_percent.num * a.effectiveness_percent.den

\* key=lambda x: (x["effectiveness_percent"], -x["feedback_count"])
KeyLessEq(a, b) ==
    \/ a.effectiveness_percent.num * b.effectiveness_percent.den
          < b.effectiveness_percent.num * a.effectiveness_percent.den
    \/ /\ a.effectiveness_percent = b.effectiveness_percent
       /\ -a.feedback_count <= -b.feedback_count

\* candidates.sort(...): modules equal in the key stay in the order of the
\* query, which is any order for equal avg_effectiveness
SortCandidates(candidates) ==
    {q \in Orderings(candidates) :
        \A a, b \in DOMAIN q : a < b => KeyLessEq(q[a], q[b])}

get_modules_for_optimization(min_feedback, max_effectiveness, target_model, limit) ==
    /\ \E q \in SortCandidates(Candidates(min_feedback, max_effectiveness, target_model)) :
          reply' = [op |-> "get_modules_for_optimization", success |-> TRUE,
                    count |-> Len(Limit(q, limit)), modules |-> Limit(q, limit)]
    /\ UNCHANGED <<feedback, now, storeVars, scorerVars, probeVars, fsVars>>

ModulesForOptimizationInit ==
    /\ StoreInit
    /\ ScorerIdle
    /\ feedback \in ModuleFeedbackTables(MaxFeedback)
    /\ now = 0
    /\ reply = [op |-> "none"]
    /\ ProbeIdle
    /\ DiskIdle

ModulesForOptimizationNext ==
    \E min_feedback \in {1, 2} : \E max_effectiveness \in {MaxEffectiveness, 100} :
        \E target_model \in ModelFilters : \E limit \in Limits :
            get_modules_for_optimization(min_feedback, max_effectiveness,
                                         target_model, limit)

SpecModulesForOptimization ==
    ModulesForOptimizationInit /\ [][ModulesForOptimizationNext]_vars

\* ------------------------------------------------------------------------
\* Module content: words, and fenced context blocks, joined by single spaces
\* ------------------------------------------------------------------------
Word(text, lower, len) ==
    [kind |-> "word", text |-> text, lower |-> lower, len |-> len, lines |-> 0]

\* "```context\n" + lines + "\n```", the first line being "run"
Block(lines) ==
    [kind |-> "block", text |-> "context", lower |-> "context", len |-> 7,
     lines |-> lines]

Words ==
    {Word("Cache", "cache", 5), Word("This", "this", 4), Word("Api", "api", 3),
     Word("data", "data", 4)}

ModuleTokens == {Word("Cache", "cache", 5), Word("Api", "api", 3), Block(3), Block(1)}

Contents(tokens, max_content) ==
    UNION {[1..n -> tokens] : n \in 1..max_content}

Capitalized(token) == token.kind = "word" /\ token.text # token.lower

\* ------------------------------------------------------------------------
\* src/scripts/context/evaluator.py: ContextEvaluator._extract_key_terms
\* ------------------------------------------------------------------------
\* max_terms: int = 10
MaxTerms == 10

StopWords == {"this", "that", "the", "and", "for"}

\* where the match of [A-Z][a-zA-Z0-9]*(?:\s+[A-Z][a-zA-Z0-9]*)* from token i ends
RECURSIVE MatchEnd(_, _)
MatchEnd(c, i) ==
    IF i < Len(c) /\ Capitalized(c[i + 1]) THEN MatchEnd(c, i + 1) ELSE i

\* term_pattern.findall(content): the matches from token i on, each the
\* texts of its words
RECURSIVE FindAll(_, _)
FindAll(c, i) ==
    IF i > Len(c) THEN <<>>
    ELSE IF Capitalized(c[i])
    THEN <<[k \in 1..(MatchEnd(c, i) - i + 1) |-> c[i + k - 1]]>>
         \o FindAll(c, MatchEnd(c, i) + 1)
    ELSE FindAll(c, i + 1)

\* len(term)
RECURSIVE TermLen(_)
TermLen(term) ==
    IF Len(term) = 1 THEN term[1].len
    ELSE term[1].len + 1 + TermLen(Tail(term))

\* term.lower() in ['this', 'that', 'the', 'and', 'for']
IsStopWord(term) == Len(term) = 1 /\ term[1].lower \in StopWords

Seen(terms, term) == \E k \in DOMAIN terms : terms[k] = term

\* the loop over the matches from match k on
RECURSIVE KeepAll(_, _, _, _)
KeepAll(matches, k, terms, max_terms) ==
    IF k > Len(matches) \/ Len(terms) >= max_terms THEN terms
    ELSE IF TermLen(matches[k]) > 3 /\ ~IsStopWord(matches[k])
    THEN KeepAll(matches, k + 1, Append(terms, matches[k]), max_terms)
    ELSE KeepAll(matches, k + 1, terms, max_terms)

RECURSIVE Keep(_, _, _, _)
Keep(matches, k, terms, max_terms) ==
    IF k > Len(matches) \/ Len(terms) >= max_terms THEN terms
    ELSE IF /\ TermLen(matches[k]) > 3
            /\ ~Seen(terms, matches[k])
            /\ ~IsStopWord(matches[k])
    THEN Keep(matches, k + 1, Append(terms, matches[k]), max_terms)
    ELSE Keep(matches, k + 1, terms, max_terms)

evaluator_extract_key_terms(c, max_terms) ==
    Keep(FindAll(c, 1), 1, <<>>, max_terms)

ExtractKeyTerms ==
    /\ key_terms = None
    /\ key_terms' = evaluator_extract_key_terms(content, MaxTerms)
    /\ UNCHANGED <<content, test_cases, storeVars, scorerVars, feedbackVars, fsVars>>

KeyTermsInit ==
    /\ StoreInit
    /\ ScorerIdle
    /\ FeedbackIdle
    /\ content \in Contents(Words, MaxContent)
    /\ key_terms = None
    /\ test_cases = <<>>
    /\ DiskIdle

KeyTermsNext == ExtractKeyTerms

SpecKeyTerms == KeyTermsInit /\ [][KeyTermsNext]_vars

\* ------------------------------------------------------------------------
\* src/scripts/context/context_evaluator.py: ContextEvaluator.generate_test_cases
\* and ContextEvaluator._extract_key_terms
\* ------------------------------------------------------------------------
\* num_tests=3
NumTests == 3

\* unique_terms[:10]
MaxUniqueTerms == 10

\* key_terms[:5]
TermsPerAssertion == 5

\* list[:n]
Slice(list, n) == SubSeq(list, 1, IF n < Len(list) THEN n ELSE Len(list))

\* the words of a fenced block: "context", then its lines
BlockWords(token) ==
    SubSeq(<<Word("context", "context", 7), Word("run", "run", 3),
             Word("ab", "ab", 2), Word("cd", "cd", 2)>>, 1, token.lines + 1)

Texts(words) == [k \in DOMAIN words |-> words[k].text]

IsBlock(token) == token.kind = "block"

\* re.findall(r'```context\n(.*?)\n```', module_content, re.DOTALL)
context_blocks(c) == SelectSeq(c, IsBlock)

LongWords(words) == {words[k] : k \in {k \in DOMAIN words : words[k].len > 3}}

\* the words longer than 3 of every ```...``` block
CodeBlockTerms(c) ==
    UNION {{[kind |-> "word", of |-> <<w.text>>] :
               w \in LongWords(BlockWords(c[i]))} :
           i \in {i \in DOMAIN c : IsBlock(c[i])}}

\* the capitalized words longer than 3
CapTerms(c) ==
    {[kind |-> "word", of |-> <<c[i].text>>] :
        i \in {i \in DOMAIN c : Capitalized(c[i]) /\ c[i].len > 3}}

\* re.findall(r'`([^`]+)`', content): between the last backquote of a fence
\* and the first of the next one, that is the inside of every block and the
\* text between a block and the next
BacktickTerms(c) ==
    {[kind |-> "inside", of |-> Texts(BlockWords(c[i]))] :
        i \in {i \in DOMAIN c : IsBlock(c[i])}}
    \cup
    {[kind |-> "between", of |-> Texts(SubSeq(c, i + 1, j - 1))] :
        <<i, j>> \in {p \in (DOMAIN c) \X (DOMAIN c) :
                        /\ p[1] < p[2]
                        /\ IsBlock(c[p[1]])
                        /\ IsBlock(c[p[2]])
                        /\ \A k \in (p[1] + 1)..(p[2] - 1) : ~IsBlock(c[k])}}

technical_terms(c) == CodeBlockTerms(c) \cup CapTerms(c) \cup BacktickTerms(c)

\* the lists of the elements of a set, each once
RECURSIVE Listings(_)
Listings(S) ==
    IF S = {} THEN {<<>>}
    ELSE UNION {{<<x>> \o q : q \in Listings(S \ {x})} : x \in S}

\* list(set(technical_terms))[:10]: a set of strings is listed in the order
\* of the hashes of this process, which differ from a process to the next
context_evaluator_extract_key_terms(c) ==
    {Slice(unique_terms, MaxUniqueTerms) :
        unique_terms \in Listings(technical_terms(c))}

NoBlockPrompts ==
    <<"What is the main purpose of this module?",
      "Give me an example of how to use this information.",
      "Explain the key concepts from this module.">>

\* the loop over context_blocks[:num_tests]: a block of more than 2 lines
\* gives a prompt about its first line
RECURSIVE BlockPrompts(_)
BlockPrompts(blocks) ==
    IF blocks = <<>> THEN <<>>
    ELSE (IF Head(blocks).lines > 2
          THEN <<"Explain run in detail.">> ELSE <<>>)
         \o BlockPrompts(Tail(blocks))

FillNothing(prompts, num_tests) == prompts

\* while len(prompts) < num_tests: prompts.append(...)
FillGeneric(prompts, num_tests) ==
    prompts \o [k \in 1..(num_tests - Len(prompts)) |->
                   "What are the key points from this context module?"]

PromptsOf(c, num_tests) ==
    IF context_blocks(c) = <<>> THEN NoBlockPrompts
    ELSE FillGeneric(BlockPrompts(Slice(context_blocks(c), num_tests)),
                     num_tests)

\* a module_content that is no str (None): re.findall raises TypeError on it
NoText ==
    <<[kind |-> "none", text |-> "", lower |-> "", len |-> 0, lines |-> 0]>>

IsText(c) == c # NoText

\* the test cases the try block builds from a text whose key terms were
\* listed as terms
TestCases(c, num_tests, terms) ==
    [k \in DOMAIN Slice(PromptsOf(c, num_tests), num_tests) |->
        [userPrompt |-> PromptsOf(c, num_tests)[k],
         contains_any |-> Slice(terms, TermsPerAssertion),
         assertions |-> AssertionsPerTest]]

\* the basic test case of the except branch: one length assertion
FallbackTestCases ==
    <<[userPrompt |-> "What is the main purpose of this module?",
       contains_any |-> <<>>,
       assertions |-> FallbackAssertions]>>

ExceptReraise == [raised |-> TRUE, cases |-> <<>>]

\* except Exception as e: ... return [...]
Except == [raised |-> FALSE, cases |-> FallbackTestCases]

\* what the call does: the list it returns, or the exception it lets out
generate_test_cases(c, num_tests, terms) ==
    IF IsText(c)
    THEN [raised |-> FALSE, cases |-> TestCases(c, num_tests, terms)]
    ELSE Except

\* the lists _extract_key_terms can return when generate_test_cases gets
\* to call it
KeyTermsOf(c) ==
    IF IsText(c) THEN context_evaluator_extract_key_terms(c) ELSE {<<>>}

\* one run of the evaluation of a module, in a process of its own
GenerateTestCases ==
    \E num_tests \in {1, NumTests} :
        \E terms \in KeyTermsOf(content) :
            /\ key_terms' = terms
            /\ test_cases' =
                   <<[num_tests |-> num_tests] @@
                     generate_test_cases(content, num_tests, terms)>>
            /\ UNCHANGED <<content, storeVars, scorerVars, feedbackVars, fsVars>>

ProbesInit ==
    /\ StoreInit
    /\ ScorerIdle
    /\ FeedbackIdle
    /\ content \in Contents(ModuleTokens, MaxTokens) \cup {NoText}
    /\ key_terms = None
    /\ test_cases = <<>>
    /\ DiskIdle

ProbesNext == GenerateTestCases

SpecProbes == ProbesInit /\ [][ProbesNext]_vars

\* ------------------------------------------------------------------------
\* src/scripts/context/evaluator.py: ContextEvaluator.generate_test_cases and
\* ContextEvaluator._extract_context_blocks
\* ------------------------------------------------------------------------
\* num_cases: int = 5
NumCases == 5

\* key_terms[:3]
TermsPerCase == 3

\* <context name="...">body</context>
Tag(name, body) == [kind |-> "context", name |-> name, body |-> body]

TaggedTokens ==
    {Tag("a", "data"), Tag("a", "text"), Tag("b", "data"),
     Word("Data", "data", 4), Word("text", "text", 4)}

IsTag(token) == token.kind = "context"

\* context_blocks[name] = block_content: a dict keeps the place of the first
\* entry of a name and the value of the last
Put(blocks, name, body) ==
    IF \E k \in DOMAIN blocks : blocks[k].name = name
    THEN [k \in DOMAIN blocks |->
             IF blocks[k].name = name
             THEN [name |-> name, body |-> body] ELSE blocks[k]]
    ELSE Append(blocks, [name |-> name, body |-> body])

\* the loop over context_pattern.finditer(content), from token i on
RECURSIVE PutMatches(_, _, _)
PutMatches(c, i, blocks) ==
    IF i > Len(c) THEN blocks
    ELSE IF IsTag(c[i])
    THEN PutMatches(c, i + 1, Put(blocks, c[i].name, c[i].body))
    ELSE PutMatches(c, i + 1, blocks)

\* a content that is no text makes finditer raise, and the except branch
\* returns the empty dict
evaluator_extract_context_blocks(c) ==
    IF IsText(c) THEN PutMatches(c, 1, <<>>) ELSE <<>>

GenericCases ==
    <<[query |-> "Explain the main concepts in this document",
       topic |-> "", contains |-> <<>>],
      [query |-> "What are the key features described in this module?",
       topic |-> "", contains |-> <<>>]>>

PaddingCase ==
    [query |-> "How would you implement the functionality described in this module?",
     topic |-> "", contains |-> <<>>]

\* term.lower() in block.lower() or term.lower() in name.lower(), for the
\* one-word bodies and one-letter names of the contents above
Related(term, block) == Len(term) = 1 /\ term[1].lower = block.body

CaseOf(block, terms) ==
    LET IsRelated(term) == Related(term, block)
    IN [query |-> "What is the purpose of {name}? Explain it in detail.",
        topic |-> block.name,
        contains |-> SelectSeq(Slice(terms, TermsPerCase), IsRelated)]

\* num_cases is an int in every call, so that the try block raises nothing
evaluator_generate_test_cases(c, num_cases) ==
    LET blocks == evaluator_extract_context_blocks(c)
        cases == [k \in DOMAIN Slice(blocks, num_cases) |->
                     CaseOf(blocks[k],
                            evaluator_extract_key_terms(c, MaxTerms))]
    IN IF blocks = <<>> THEN GenericCases
       ELSE cases \o [k \in 1..(num_cases - Len(cases)) |-> PaddingCase]

Synthesize ==
    \E num_cases \in {1, 2, NumCases} :
        /\ key_terms' =
               IF evaluator_extract_context_blocks(content) = <<>>
               THEN key_terms
               ELSE evaluator_extract_key_terms(content, MaxTerms)
        /\ test_cases' =
               <<[num_tests |-> num_cases, raised |-> FALSE,
                  cases |-> evaluator_generate_test_cases(content, num_cases)]>>
        /\ UNCHANGED <<content, storeVars, scorerVars, feedbackVars, fsVars>>

SynthesisInit ==
    /\ StoreInit
    /\ ScorerIdle
    /\ FeedbackIdle
    /\ content \in Contents(TaggedTokens, MaxTokens) \cup {NoText}
    /\ key_terms = None
    /\ test_cases = <<>>
    /\ DiskIdle

SynthesisNext == Synthesize

SpecSynthesis == SynthesisInit /\ [][SynthesisNext]_vars

\* ------------------------------------------------------------------------
\* src/scripts/context/evaluator.py: evaluate_module in two steps, the call
\* of subprocess.run and its return.  subprocess.run is called without
\* timeout: it returns when the PromptFoo process exits, and not before.
\* ------------------------------------------------------------------------
\* evaluate_module up to the call of subprocess.run in run_evaluation
CallSubprocess ==
    /\ eval_pc = "ready"
    /\ IF files.original /\ files.optimized
       THEN /\ eval_pc' = "subprocess.run"
            /\ UNCHANGED results
       ELSE /\ eval_pc' = "done"
            /\ results' = EvaluateModule(files, promptfoo)
    /\ UNCHANGED <<files, promptfoo, eval_results, storeVars, feedbackVars,
                   probeVars, fsVars>>

\* the PromptFoo process exits, and evaluate_module goes on to its return
SubprocessReturns ==
    /\ eval_pc = "subprocess.run"
    /\ eval_pc' = "done"
    /\ eval_results' = evaluator_run_evaluation(promptfoo)
    /\ results' = EvaluateModule(files, promptfoo)
    /\ UNCHANGED <<files, promptfoo, storeVars, feedbackVars, probeVars, fsVars>>

BlockingNext == CallSubprocess \/ SubprocessReturns

\* the program takes its own steps; nothing makes the external process exit
SpecBlocking ==
    EvaluatorInit /\ [][BlockingNext]_vars /\ WF_vars(CallSubprocess)

\* ------------------------------------------------------------------------
\* src/feedback_system.py: ContextFeedback.batch_add_feedback on the
\* module_feedback table, kept in feedback
\* ------------------------------------------------------------------------
\* the dictionaries of a batch; a key that is missing is read as None by
\* feedback.get and breaks NOT NULL
FeedbackEntries ==
    [module_name : {"m1", "m2", None}, model_used : {"claude"},
     feedback_type : {"positive", "negative"}]

Batches(max_batch) ==
    UNION {[1..n -> FeedbackEntries] : n \in 0..max_batch}

\* module_name, model_used and feedback_type are TEXT NOT NULL
NotNull(entry) ==
    /\ entry.module_name # None
    /\ entry.model_used # None
    /\ entry.feedback_type # None

\* INSERT INTO module_feedback, with the id of AUTOINCREMENT
InsertEntry(table, entry) ==
    Append(table, [id |-> Len(table) + 1,
                   module_name |-> entry.module_name,
                   model_used |-> entry.model_used,
                   feedback_type |-> entry.feedback_type])

\* the loop of INSERTs from entry i on, up to the first that raises
RECURSIVE InsertBatch(_, _, _, _)
InsertBatch(table, batch, i, ids) ==
    IF i > Len(batch) THEN [raised |-> FALSE, table |-> table, ids |-> ids]
    ELSE IF ~NotNull(batch[i])
    THEN [raised |-> TRUE, table |-> table, ids |-> ids]
    ELSE InsertBatch(InsertEntry(table, batch[i]), batch, i + 1,
                     Append(ids, Len(table) + 1))

RollbackNothing(before, after) == after

\* cursor.execute("ROLLBACK")
Rollback(before, after) == before

batch_add_feedback(batch) ==
    LET done == InsertBatch(feedback, batch, 1, <<>>)
    IN /\ Len(feedback) + Len(batch) <= MaxFeedback
       /\ IF done.raised
          THEN /\ feedback' = Rollback(feedback, done.table)
               /\ reply' = [op |-> "batch_add_feedback", batch |-> batch,
                            raised |-> TRUE, ids |-> <<>>]
          ELSE /\ feedback' = done.table
               /\ reply' = [op |-> "batch_add_feedback", batch |-> batch,
                            raised |-> FALSE, ids |-> done.ids]
       /\ UNCHANGED <<now, storeVars, scorerVars, probeVars, fsVars>>

BatchInit ==
    /\ StoreInit
    /\ ScorerIdle
    /\ FeedbackIdle
    /\ ProbeIdle
    /\ DiskIdle

BatchNext == \E batch \in Batches(MaxBatch) : batch_add_feedback(batch)

SpecBatch == BatchInit /\ [][BatchNext]_vars

\* ------------------------------------------------------------------------
\* The files of one module.  disk.original and disk.optimized are the
\* contents of the two files or Absent, disk.backups the backup files as
\* pairs <<name, content>>, disk.others the other files written.  now is
\* datetime.now() in seconds, the unit of the timestamps of backup names.
\* ------------------------------------------------------------------------
FileContents == {"", "text a", "text b", "long text"}

\* shutil.copy2(file, backup_path): a file of that name is overwritten
CopyTo(backups, name, text) ==
    {b \in backups : b[1] # name} \cup {<<name, text>>}

\* a second goes by
Tick ==
    /\ now < MaxSeconds
    /\ now' = now + 1
    /\ UNCHANGED <<feedback, reply, storeVars, scorerVars, probeVars, fsVars>>

\* ------------------------------------------------------------------------
\* src/scripts/context/dspy_bridge.py: ContextOptimizer.optimize_module
\* ------------------------------------------------------------------------
\* create_backup: _backups/{stem}_{%Y%m%d_%H%M%S}{suffix}
dspy_bridge_create_backup(d) ==
    [d EXCEPT !.backups = CopyTo(d.backups, now, d.original)]

\* save_context_module(module_path, content, replace_original)
save_context_module(d, text, replace_original) ==
    IF replace_original THEN [d EXCEPT !.original = text]
    ELSE [d EXCEPT !.optimized = text]

\* create_signature(target_model): the body of class OptimizeContext reads
\* target_model while it assigns that name, so that the name is looked up in
\* the class and in the globals, and never in the function: NameError
create_signature == "NameError"

\* rewritten is what the language model returns, Absent when the call raises
optimize_module(backup_enabled, rewritten, dry_run, replace_original) ==
    LET backed == IF backup_enabled THEN dspy_bridge_create_backup(disk)
                  ELSE disk
    IN /\ IF disk.original = Absent
          THEN /\ disk' = disk
               /\ reply' = [op |-> "optimize_module", dry_run |-> dry_run,
                            success |-> FALSE]
          ELSE IF create_signature = "NameError" \/ rewritten = Absent
          THEN /\ disk' = backed
               /\ reply' = [op |-> "optimize_module", dry_run |-> dry_run,
                            success |-> FALSE]
          ELSE IF dry_run
          THEN /\ disk' = backed
               /\ reply' = [op |-> "optimize_module", dry_run |-> TRUE,
                            success |-> TRUE]
          ELSE /\ disk' = save_context_module(backed, rewritten,
                                              replace_original)
               /\ reply' = [op |-> "optimize_module", dry_run |-> FALSE,
                            success |-> TRUE]
       /\ UNCHANGED <<feedback, now, held, storeVars, scorerVars, probeVars>>

OptimizeStep ==
    \E backup_enabled \in BOOLEAN, dry_run \in BOOLEAN,
       replace_original \in BOOLEAN, rewritten \in FileContents \cup {Absent} :
        optimize_module(backup_enabled, rewritten, dry_run, replace_original)

OptimizeInit ==
    /\ StoreInit
    /\ ScorerIdle
    /\ FeedbackIdle
    /\ ProbeIdle
    /\ disk \in [original : FileContents \cup {Absent},
                 optimized : FileContents \cup {Absent},
                 backups : {{}}, others : {{}}]
    /\ held = {}

OptimizeNext == OptimizeStep \/ Tick

SpecOptimize == OptimizeInit /\ [][OptimizeNext]_vars

\* ------------------------------------------------------------------------
\* src/scripts/context/optimizer.py: ContextOptimizer.apply_optimization,
\* with backup_file and write_file_content of utils.py
\* ------------------------------------------------------------------------
\* backup_file(file_path, backup_dir): backup_dir/{file_path.name}.bak
BakName == "mod.md.bak"

backup_file(d) == [d EXCEPT !.backups = CopyTo(d.backups, BakName, d.original)]

\* whether open(text, 'w') can create a file of that name: a long text gives
\* OSError (File name too long), the empty text FileNotFoundError
NameLike(text) == text \notin {"", "long text"}

\* write_file_content(file_path, content), called as
\* write_file_content(optimized_content, original_path): the file named by
\* the first argument gets the second as its content
write_file_content(d, file_path, text) ==
    [d EXCEPT !.others = {f \in d.others : f[1] # file_path}
                            \cup {<<file_path, text>>}]

optimizer_apply_optimization ==
    /\ IF disk.original = Absent
       THEN /\ disk' = disk
            /\ held' = held
            /\ reply' = [op |-> "apply_optimization", success |-> FALSE]
       ELSE /\ held' = held \cup {disk.original}
            /\ IF disk.optimized = Absent \/ ~NameLike(disk.optimized)
               THEN /\ disk' = backup_file(disk)
                    /\ reply' = [op |-> "apply_optimization",
                                 success |-> FALSE]
               ELSE /\ disk' = write_file_content(backup_file(disk),
                                                  disk.optimized,
                                                  "original_path")
                    /\ reply' = [op |-> "apply_optimization",
                                 success |-> TRUE]
    /\ UNCHANGED <<feedback, now, storeVars, scorerVars, probeVars>>

\* the module's files when the call is made: a backup of an earlier call
\* may be there
ApplyInit ==
    /\ StoreInit
    /\ ScorerIdle
    /\ FeedbackIdle
    /\ ProbeIdle
    /\ \E original, optimized, bak \in FileContents \cup {Absent} :
           disk = [original |-> original, optimized |-> optimized,
                   backups |-> IF bak = Absent THEN {}
                               ELSE {<<BakName, bak>>},
                   others |-> {}]
    /\ held = {}

ApplyNext == optimizer_apply_optimization

SpecApply == ApplyInit /\ [][ApplyNext]_vars

\* ------------------------------------------------------------------------
\* src/scripts/apply_optimizations.py: create_backup and apply_optimization
\* ------------------------------------------------------------------------
\* create_backup(file_path, backup_dir): {stem}_{%Y%m%d%H%M%S}{ext}, the
\* name is the second of the call
script_create_backup(d) ==
    [d EXCEPT !.backups = CopyTo(d.backups, now, d.original)]

\* shutil.copy2(optimized_path, original_path)
CopyOptimized(d) == [d EXCEPT !.original = d.optimized]

\* held: every content the original file had when an apply began
script_apply_optimization ==
    /\ IF disk.original = Absent
       THEN \* create_backup raises, there is no backup to restore from
            /\ disk' = disk
            /\ held' = held
            /\ reply' = [op |-> "apply_optimization", success |-> FALSE]
       ELSE /\ held' = held \cup {disk.original}
            /\ IF disk.optimized = Absent
               THEN \* the copy raises, the original is restored from the backup
                    /\ disk' = script_create_backup(disk)
                    /\ reply' = [op |-> "apply_optimization",
                                 success |-> FALSE]
               ELSE /\ disk' = CopyOptimized(script_create_backup(disk))
                    /\ reply' = [op |-> "apply_optimization",
                                 success |-> TRUE]
    /\ UNCHANGED <<feedback, now, storeVars, scorerVars, probeVars>>

\* an optimization run saves a new optimized version of the module
SaveOptimized ==
    \E text \in FileContents :
        /\ text # disk.optimized
        /\ disk' = save_context_module(disk, text, FALSE)
        /\ UNCHANGED <<feedback, now, reply, held, storeVars, scorerVars,
                       probeVars>>

ApplyScriptInit ==
    /\ StoreInit
    /\ ScorerIdle
    /\ FeedbackIdle
    /\ ProbeIdle
    /\ disk \in [original : FileContents \cup {Absent},
                 optimized : FileContents \cup {Absent},
                 backups : {{}}, others : {{}}]
    /\ held = {}

ApplyScriptNext == script_apply_optimization \/ SaveOptimized \/ Tick

SpecApplyScript == ApplyScriptInit /\ [][ApplyScriptNext]_vars

\* ------------------------------------------------------------------
\* batch_evaluate of evaluator.py: evaluate_module on each module of the
\* list, and a summary of the results.
\* ------------------------------------------------------------------

\* the PromptFoo runs of a module of the batch: at most two tests, each
\* with a result for both versions
BatchRuns ==
    {r \in PromptFooRuns(2) :
        \A i \in DOMAIN r.results : \A v \in Versions :
            r.results[i][v] # "absent"}

\* a module of the batch: which of its files exist, and what PromptFoo
\* says when it is run on them
BatchModules ==
    {[files |-> f, run |-> r] :
        f \in {[original |-> FALSE, optimized |-> TRUE],
               [original |-> TRUE, optimized |-> FALSE]},
        r \in {[status |-> "Exception", results |-> <<>>]}}
    \cup {[files |-> [original |-> TRUE, optimized |-> TRUE], run |-> r] :
            r \in BatchRuns}

ModuleLists(max_modules) ==
    UNION {[1..n -> BatchModules] : n \in 0..max_modules}

\* results["modules"]: eval_result of each module, in the order of the list
EvalResults(module_paths) ==
    [i \in DOMAIN module_paths |->
        EvaluateModule(module_paths[i].files, module_paths[i].run)]

\* the positions of the list whose eval_result satisfies Test, in order
PathsWhere(rs, Test(_)) ==
    SelectSeq([i \in DOMAIN rs |-> i], LAMBDA i : Test(rs[i]))

Succeeded(r) == r.success

\* if improvement > 10: improved; elif improvement < -5: regressed;
\* else: neutral
IsImproved(r) == r.success /\ FracGT(r.improvement, 10)
IsRegressed(r) ==
    r.success /\ ~FracGT(r.improvement, 10) /\ FracLT(r.improvement, -5)
IsNeutral(r) ==
    r.success /\ ~FracGT(r.improvement, 10) /\ ~FracLT(r.improvement, -5)
IsFailed(r) == ~r.success

\* total_improvement += improvement, for the results with success
RECURSIVE TotalImprovement(_)
TotalImprovement(rs) ==
    IF rs = <<>> THEN Frac(0, 1)
    ELSE IF Head(rs).success
         THEN FracAdd(Head(rs).improvement, TotalImprovement(Tail(rs)))
         ELSE TotalImprovement(Tail(rs))

AverageOverTotal(total_improvement, evaluated, total) ==
    IF evaluated > 0
    THEN FracDiv(total_improvement, Frac(total, 1))
    ELSE Frac(0, 1)

\* if evaluated > 0: total_improvement / evaluated, else the initial 0.0
AverageImprovement(total_improvement, evaluated, total) ==
    IF evaluated > 0
    THEN FracDiv(total_improvement, Frac(evaluated, 1))
    ELSE Frac(0, 1)

ModuleInfo(rs, paths) ==
    [k \in DOMAIN paths |->
        [path |-> paths[k], improvement |-> rs[paths[k]].improvement]]

FailedInfo(rs, paths) ==
    [k \in DOMAIN paths |-> [path |-> paths[k], error |-> rs[paths[k]].error]]

\* the summary of a list that is not empty
BatchSummary(rs) ==
    [success |-> TRUE,
     total |-> Len(rs),
     evaluated |-> Len(PathsWhere(rs, Succeeded)),
     improved |-> ModuleInfo(rs, PathsWhere(rs, IsImproved)),
     regressed |-> ModuleInfo(rs, PathsWhere(rs, IsRegressed)),
     neutral |-> ModuleInfo(rs, PathsWhere(rs, IsNeutral)),
     failed |-> FailedInfo(rs, PathsWhere(rs, IsFailed)),
     average_improvement |->
         AverageImprovement(TotalImprovement(rs),
                            Len(PathsWhere(rs, Succeeded)), Len(rs)),
     modules |-> rs]

\* batch_evaluate(module_paths) where list_modules() returns all_modules
evaluator_batch_evaluate(module_paths, all_modules) ==
    LET paths == IF module_paths = <<>> THEN all_modules ELSE module_paths
    IN  /\ reply' = [op |-> "batch_evaluate",
                    module_paths |-> paths,
                    result |-> IF paths = <<>>
                               THEN Failure("No modules found to evaluate")
                               ELSE BatchSummary(EvalResults(paths))]
        /\ UNCHANGED <<feedback, now, storeVars, scorerVars, probeVars,
                       fsVars>>

BatchEvaluate ==
    \E module_paths \in ModuleLists(MaxModules) :
        \E all_modules \in ModuleLists(1) :
            /\ reply.op = "none"
            /\ module_paths # <<>> => all_modules = <<>>
            /\ evaluator_batch_evaluate(module_paths, all_modules)

BatchEvaluateInit ==
    /\ StoreInit
    /\ FeedbackIdle
    /\ ScorerIdle
    /\ ProbeIdle
    /\ DiskIdle

BatchEvaluateNext == BatchEvaluate

SpecBatchEvaluate == BatchEvaluateInit /\ [][BatchEvaluateNext]_vars

\* ------------------------------------------------------------------------
\* Specifications
\* ------------------------------------------------------------------------
Init ==
    /\ StoreInit
    /\ FeedbackIdle
    /\ ProbeIdle
    /\ DiskIdle
    /\ ScorerIdle

RecordStep ==
    \E p \in Pairs, tok \in TokenCounts, imp \in ImprovementPercents,
       is_applied \in BOOLEAN :
        record_optimization(p[1], p[2], tok[1], tok[2], imp, is_applied)

ConnectStep == \E c \in Callers, p \in Pairs : MarkConnect(c, p[1], p[2])
ExecuteStep == \E c \in Callers : MarkExecute(c)
CommitStep == \E c \in Callers : MarkCommit(c)

Next ==
    \/ RecordStep
    \/ ConnectStep
    \/ ExecuteStep
    \/ CommitStep

Spec == Init /\ [][Next]_vars

\* ------------------------------------------------------------------------
\* Properties of the outcome store (Spec)
\* ------------------------------------------------------------------------
Returned(c) == call[c].pc \in {"idle", "returned"}

Executes(c) == call[c].pc = "connected" /\ call'[c].pc = "updated"

Commits(c) == call[c].pc = "updated" /\ call'[c].pc = "returned"

RunsOf(rows, module_name, target_model) ==
    {i \in 1..Len(rows) : rows[i].module_name = module_name
                          /\ rows[i].target_model = target_model}

NoRunSinceLastMark(c) ==
    /\ last_mark.module_name = call[c].module_name
    /\ last_mark.target_model = call[c].target_model
    /\ last_mark.nruns = Cardinality(RunsOf(optimization_results,
                             call[c].module_name, call[c].target_model))

\* C1: a mark_applied call on a (document, audience) pair that follows another
\* mark_applied call on the same pair, with no run recorded for the pair in
\* between, returns false and leaves the store unchanged.
C1_SecondCallReturnsFalse ==
    [][\A c \in Callers :
          (/\ Executes(c)
           /\ NoRunSinceLastMark(c)
           /\ \A d \in Callers \ {c} : Returned(d))
          => /\ ~Success(call'[c].rowcount)
             /\ optimization_results' = optimization_results]_vars

C3_OnlyMostRecentRun ==
    [][\A c \in Callers :
          (Executes(c) /\ RunsOf(optimization_results, call[c].module_name,
                                 call[c].target_model) # {})
          => \E i \in RunsOf(optimization_results, call[c].module_name,
                             call[c].target_model) :
                /\ \A j \in RunsOf(optimization_results, call[c].module_name,
                                   call[c].target_model) :
                      optimization_results[j].timestamp
                          <= optimization_results[i].timestamp
                /\ optimization_results'[i].is_applied
                /\ Len(optimization_results') = Len(optimization_results)
                /\ \A k \in 1..Len(optimization_results) :
                      k # i => optimization_results'[k] = optimization_results[k]]_vars

C3_Witness ==
    \E c \in Callers :
        /\ call[c].pc = "updated"
        /\ call[c].flipped
        /\ \E i, j \in RunsOf(optimization_results, call[c].module_name,
                              call[c].target_model) :
              /\ optimization_results[j].timestamp < optimization_results[i].timestamp
              /\ optimization_results[i].is_applied
              /\ ~optimization_results[j].is_applied

\* C4: of two overlapping mark_applied calls on the same pair, with no run
\* recorded in between, at most one returns true: when a call began while the
\* pair's most recent run was unapplied, and the other caller has since marked
\* that pair and returned true, the call does not return true as well.
C4_AtMostOneReturnsTrue ==
    [][\A c1, c2 \in Callers :
          (/\ c1 # c2
           /\ call[c1].pc = "returned"
           /\ call[c1].success
           /\ call[c2].pc = "connected"
           /\ call[c2].unapplied
           /\ NoRunSinceLastMark(c2)
           /\ call'[c2].pc = "updated")
          => ~Success(call'[c2].rowcount)]_vars

Hundredths(x) == (x.num * 100) \div x.den

C7_ImprovementIsDifference ==
    (eval_pc = "done" /\ results.success) =>
        results.improvement = FracSub(results.scores["optimized"].score,
                                      results.scores["original"].score)

\* C8: a variant's score is 100 * (passed assertions of all tests) / (assertions
\* of all tests), 0 when there is no assertion.
PooledPassed(prompt) ==
    SumFractions([i \in 1..Len(promptfoo.results) |->
                    [p \in Prompts |->
                        [present |-> TRUE,
                         passed |-> promptfoo.results[i][p].passed,
                         total |-> 1]]],
                 prompt, Len(promptfoo.results)).num

PooledTotal(prompt) ==
    SumFractions([i \in 1..Len(promptfoo.results) |->
                    [p \in Prompts |->
                        [present |-> TRUE,
                         passed |-> promptfoo.results[i][p].total,
                         total |-> 1]]],
                 prompt, Len(promptfoo.results)).num

PooledScore(prompt) ==
    IF PooledTotal(prompt) = 0 THEN 0
    ELSE Round2(Frac(100 * PooledPassed(prompt), PooledTotal(prompt)))

C8_ScoreIsPooled ==
    (eval_pc = "done" /\ eval_results.success) =>
        /\ eval_results.original_score = PooledScore("Original")
        /\ eval_results.optimized_score = PooledScore("Optimized")

\* C9: whatever the PromptFoo run writes to its output, the scoring run yields
\* an original and an optimized score within [0, 100], and a variant none of
\* whose prompt results was evaluated gets score 0, not an error.
JudgeOutput == promptfoo.status \in {"ok", "JSONDecodeError"}

C9_ScoresWellFormed ==
    (eval_pc = "done" /\ files.original /\ files.optimized /\ JudgeOutput) =>
        /\ results.success
        /\ \A v \in Versions :
              /\ results.scores[v].score.num >= 0
              /\ results.scores[v].score.num <= 100 * results.scores[v].score.den
              /\ (\A i \in 1..Len(promptfoo.results) :
                      promptfoo.results[i][v] = "absent")
                    => results.scores[v].score.num = 0

\* C10: when every judge call fails, the scoring run still completes with a
\* result that has both scores 0, improvement 0 and the middle recommendation;
\* it returns no failure.
EveryJudgeCallFails ==
    \/ promptfoo.status # "ok"
    \/ \A i \in 1..Len(promptfoo.results) :
          \A v \in Versions : promptfoo.results[i][v] # "pass"

C10_AllFailedStillCompletes ==
    (eval_pc = "done" /\ files.original /\ files.optimized /\ EveryJudgeCallFails)
    => /\ results.success
       /\ results.scores["original"].score = Frac(0, 1)
       /\ results.scores["optimized"].score = Frac(0, 1)
       /\ results.improvement = Frac(0, 1)
       /\ results.recommendation = "neutral"

\* ------------------------------------------------------------------------
\* Properties of the feedback store of context_feedback.py
\* ------------------------------------------------------------------------
\* C11: every stored run of a successful evaluation has improvement =
\* optimized_score - original_score, whatever sequence of record operations
\* produced the table.
C11_StoredImprovementIsDifference ==
    \A i \in DOMAIN optimization_results :
        optimization_results[i].status = "success" =>
            optimization_results[i].improvement =
                optimization_results[i].optimized_score
                    - optimization_results[i].original_score

\* C12: feedback is append-only: no step of the store removes a feedback row
\* or changes any field of one.
C12_FeedbackAppendOnly ==
    [][/\ Len(feedback') >= Len(feedback)
       /\ \A i \in DOMAIN feedback : feedback'[i] = feedback[i]]_vars

C12_Witness ==
    /\ Len(feedback) >= 2
    /\ reply.op = "get_module_feedback"
    /\ Len(reply.feedback) >= 2

IsQueryResult(rows, fetched) ==
    /\ \A k \in DOMAIN fetched :
          /\ \E i \in DOMAIN rows : rows[i] = fetched[k]
          /\ reply.module_name # None => fetched[k].module_name = reply.module_name
          /\ reply.target_model # None => fetched[k].target_model = reply.target_model
    /\ \A k, l \in DOMAIN fetched : k < l =>
          /\ fetched[k].id # fetched[l].id
          /\ fetched[k].timestamp >= fetched[l].timestamp
    /\ LET matching == {i \in DOMAIN rows :
                          /\ reply.module_name \in {None, rows[i].module_name}
                          /\ reply.target_model \in {None, rows[i].target_model}}
       IN  /\ Len(fetched) = IF Cardinality(matching) < reply.limit
                              THEN Cardinality(matching) ELSE reply.limit
           /\ \A i \in matching : \A k \in DOMAIN fetched :
                 \/ \E l \in DOMAIN fetched : fetched[l] = rows[i]
                 \/ rows[i].timestamp <= fetched[k].timestamp

C14_QueriesFilteredNewestFirst ==
    /\ reply.op = "get_module_feedback" => IsQueryResult(feedback, reply.feedback)
    /\ reply.op = "get_optimization_results" =>
          IsQueryResult(optimization_results, reply.results)

C14_Witness ==
    /\ reply.op = "get_module_feedback"
    /\ reply.module_name = "m1"
    /\ reply.limit = 1
    /\ Len(feedback) >= 2
    /\ \A i \in DOMAIN feedback : feedback[i].module_name = "m1"
    /\ feedback[1].timestamp < feedback[2].timestamp
    /\ reply.feedback = <<feedback[2]>>

\* ------------------------------------------------------------------------
\* Properties of effectiveness and ranking
\* ------------------------------------------------------------------------
\* C15: the effectiveness report flags a module exactly when it has at least
\* MinFeedback feedback entries and their average, normalized to 0..100, is
\* below the threshold.
C15_NeedsAttention ==
    reply.op = "calculate_module_effectiveness" =>
        (reply.needs_optimization <=>
            /\ reply.feedback_count >= MinFeedback
            /\ reply.effectiveness < 100 * MaxEffectiveness)

\* C16: of the modules with enough feedback and low effectiveness, the ranking
\* leaves out exactly those whose most recent run (of the given target model,
\* if one is given) is less than CooldownDays days old.
RunYoungerThanCooldown(m, target_model) ==
    \E i \in DOMAIN optimization_results :
        /\ optimization_results[i].module_name = m
        /\ target_model \in {None, optimization_results[i].target_model}
        /\ now - optimization_results[i].timestamp < CooldownDays * HoursPerDay

C16_CooldownExclusion ==
    reply.op = "identify_modules_for_improvement" =>
        \A m \in LowEffectiveness(FeedbackGroups(reply.min_feedback, reply.target_model),
                                  reply.max_effectiveness, reply.target_model) :
            (\E k \in DOMAIN reply.modules_to_improve :
                reply.modules_to_improve[k].module_name = m)
            <=> ~RunYoungerThanCooldown(m, reply.target_model)

C18_NeverEmpty ==
    (/\ test_cases # <<>>
     /\ IsText(content)
     /\ Len(content) >= 1
     /\ test_cases[1].num_tests >= 1)
        => (~test_cases[1].raised /\ Len(test_cases[1].cases) >= 1)

\* the content has context blocks and none of them gives a topic
C18_Witness ==
    /\ test_cases # <<>>
    /\ IsText(content)
    /\ context_blocks(content) # <<>>
    /\ BlockPrompts(context_blocks(content)) = <<>>
    /\ Len(test_cases[1].cases) = NumTests

\* C19: with the content and num_tests unchanged, a call of
\* generate_test_cases returns the list the call before it returned: the
\* same prompts and the same key terms in the same order.
C19_RepeatedCallsIdentical ==
    [][(/\ test_cases # <<>>
        /\ content' = content
        /\ test_cases'[1].num_tests = test_cases[1].num_tests)
           => test_cases'[1].cases = test_cases[1].cases]_vars

\* where a term appears first in the content: the first token of the first
\* run of capitalized words, as long as can be, that is the term
Appearances(c, term) ==
    {i \in DOMAIN c :
        /\ Capitalized(c[i])
        /\ i = 1 \/ ~Capitalized(c[i - 1])
        /\ i + Len(term) - 1 <= Len(c)
        /\ SubSeq(c, i, i + Len(term) - 1) = term
        /\ i + Len(term) - 1 = Len(c) \/ ~Capitalized(c[i + Len(term)])}

FirstAppearance(c, term) ==
    CHOOSE i \in Appearances(c, term) : \A j \in Appearances(c, term) : i <= j

TopicNames(c) == {c[i].name : i \in {i \in DOMAIN c : IsTag(c[i])}}

FirstTagged(c, name) ==
    CHOOSE i \in DOMAIN c :
        /\ IsTag(c[i]) /\ c[i].name = name
        /\ \A j \in 1..(i - 1) : ~(IsTag(c[j]) /\ c[j].name = name)

\* the topics in the order in which they first appear
Topics(c) ==
    CHOOSE q \in Listings(TopicNames(c)) :
        \A a, b \in DOMAIN q :
            a < b => FirstTagged(c, q[a]) < FirstTagged(c, q[b])

\* C22: generate_test_cases returns at most num_cases test cases, and the
\* first ones are the test cases of the first num_cases topics, in the
\* order in which the topics first appear in the content.
C22_AtMostMaxProbesInTopicOrder ==
    (test_cases # <<>> /\ IsText(content)) =>
        /\ Len(test_cases[1].cases) <= test_cases[1].num_tests
        /\ \A k \in DOMAIN Topics(content) :
               k <= test_cases[1].num_tests =>
                   /\ k <= Len(test_cases[1].cases)
                   /\ test_cases[1].cases[k].topic = Topics(content)[k]

\* C23: evaluate_module of a module whose optimized file is missing returns
\* a failure result that carries the reason; it raises nothing, runs no
\* evaluation and records nothing.
C23_MissingOptimizedIsFailureResult ==
    (eval_pc = "done" /\ files.original /\ ~files.optimized) =>
        /\ results = Failure("Optimized module not found")
        /\ eval_results = NotRun
        /\ optimization_results = <<>>

C23_Witness ==
    /\ eval_pc = "done"
    /\ files.original
    /\ ~files.optimized
    /\ ~results.success
    /\ promptfoo.status = "ok"

\* C24: no evaluation blocks for ever: a call of the external judge that
\* does not return is given up after a timeout, and evaluate_module
\* finishes with a result.
C24_NoOperationBlocks == (eval_pc = "subprocess.run") ~> (eval_pc = "done")

\* C25: batch_add_feedback is all or nothing: when an insert of the batch
\* fails the error is raised and the table is as before the call; when none
\* fails every entry is stored, in the order of the batch, and the ids of
\* the new rows are returned in that order.
C25_BatchAllOrNothing ==
    [][reply'.op = "batch_add_feedback" =>
          IF reply'.raised
          THEN feedback' = feedback
          ELSE /\ Len(feedback') = Len(feedback) + Len(reply'.batch)
               /\ SubSeq(feedback', 1, Len(feedback)) = feedback
               /\ Len(reply'.ids) = Len(reply'.batch)
               /\ \A k \in DOMAIN reply'.batch :
                      /\ reply'.ids[k] = feedback'[Len(feedback) + k].id
                      /\ feedback'[Len(feedback) + k].module_name
                             = reply'.batch[k].module_name
                      /\ feedback'[Len(feedback) + k].feedback_type
                             = reply'.batch[k].feedback_type
               /\ \A a, b \in DOMAIN feedback' :
                      a # b => feedback'[a].id # feedback'[b].id]_vars

\* a batch failed at its second entry, on a table that has rows
C25_Witness ==
    /\ reply.op = "batch_add_feedback"
    /\ reply.raised
    /\ Len(reply.batch) = 2
    /\ NotNull(reply.batch[1])
    /\ Len(feedback) >= 1

\* C26: optimize_module with dry_run=True saves nothing: it writes no
\* optimized file, leaves the original file as it is and creates no backup
\* file.
C26_DryRunSavesNothing ==
    [][(reply'.op = "optimize_module" /\ reply'.dry_run) => disk' = disk]_vars

\* C27: when apply_optimization reports success, the original module file
\* holds the content of the optimized file.
C27_AppliedOriginalIsOptimized ==
    (reply.op = "apply_optimization" /\ reply.success) =>
        disk.original = disk.optimized

C29_EveryAppliedOverContentIsKept ==
    \A h \in held :
        \/ disk.original = h
        \/ \E b \in disk.backups : b[2] = h

\* C30: with the default parameters (min_feedback 3, max_effectiveness 70)
\* and the same store and target model, identify_modules_for_improvement
\* returns a module if and only if calculate_module_effectiveness reports
\* needs_optimization = true for it.
ReportsNeedsOptimization(m, target_model) ==
    /\ FeedbackOf(m, target_model) # {}
    /\ NeedsOptimization(Effectiveness(AvgScore(FeedbackOf(m, target_model))),
                         Cardinality(FeedbackOf(m, target_model)),
                         LatestRuns(m, target_model))

C30_IdentifiedIffNeedsOptimization ==
    (/\ reply.op = "identify_modules_for_improvement"
     /\ reply.min_feedback = MinFeedback
     /\ reply.max_effectiveness = MaxEffectiveness) =>
        \A m \in ModuleNames :
            (\E k \in DOMAIN reply.modules_to_improve :
                reply.modules_to_improve[k].module_name = m)
            <=> ReportsNeedsOptimization(m, reply.target_model)

====
